---- MODULE Spec2Model ----
(***************************************************************************)
(* The two polling waits of the getmotion client:                          *)
(*   Job.wait_for                  (src/getmotion/resources/jobs.py)       *)
(*   _wait_for_storyboard_session  (src/getmotion/resources/storyboard.py) *)
(* One caller thread runs one wait.  The server, the transport and the     *)
(* monotonic clock are the environment: every HTTP read returns any        *)
(* payload of a small alphabet or raises, and takes 0 or MaxFetchTime      *)
(* units of monotonic time.  `trace` is the log of everything the wait     *)
(* did (reads, notifications, deadline checks, sleeps), in order.          *)
(***************************************************************************)
EXTENDS Integers, Sequences, FiniteSets

\* ------------------------------------------------------------- bounds
MaxTimeout   == 3   \* the caller's timeout argument ranges over 0..MaxTimeout
MaxPoll      == 2   \* the caller's poll_interval is 1 or MaxPoll
MaxFetchTime == 1   \* one HTTP read takes 0 or MaxFetchTime units of time

\* ------------------------------------------------------------- values
\* Python's None (an absent key read with dict.get, or a JSON null).
None == "<None>"

_FAILED_STATUS == "FAILED"

\* Status values the server reports in this model, and the targets the
\* caller waits for.
Statuses == {"RUNNING", "COMPLETED", "FAILED"}
Targets  == {"COMPLETED", "FAILED"}

\* step_detail: absent, empty, or a message.
Details == {None, "", "A", "B"}

\* The "error" sub-object of a status payload; present = FALSE is an absent
\* key or a JSON null.
NoError == [present |-> FALSE, code |-> None, detail |-> None]
Errors  == {NoError,
            [present |-> TRUE, code |-> "E42", detail |-> "boom"],
            [present |-> TRUE, code |-> None,  detail |-> "boom"]}

\* Payloads of GET /jobs/{id}/status.  The error sub-object is "present on
\* failure" only; a job still running reports any step_detail.
StatusPayloads ==
    {[status |-> "RUNNING", step_detail |-> d, error |-> NoError] : d \in Details}
    \cup
    {[status |-> "COMPLETED", step_detail |-> d, error |-> NoError] : d \in {None, "B"}}
    \cup
    {[status |-> _FAILED_STATUS, step_detail |-> d, error |-> e] :
        d \in {None, "B"}, e \in Errors}

\* Payloads of GET /jobs/{id}/storyboard.
SbPayloads == {[exists |-> FALSE, session_id |-> None],
               [exists |-> TRUE,  session_id |-> "s1"],
               [exists |-> TRUE,  session_id |-> "s2"]}

\* What an HTTP read raises: an httpx transport error, or the typed error
\* HttpClient._raise_for_status makes of a non-2xx response.
TransportErrors == {"ConnectError", "GetMotionError"}

\* The monotonic clock's reading when the wait is called.
StartTimes == {1}

NoSt == [status |-> "-", step_detail |-> None, error |-> NoError]
NoSb == [exists |-> FALSE, session_id |-> "-"]
NoRet == [kind |-> "none", st |-> NoSt, sb |-> NoSb]
NoExc == [type |-> "none", code |-> None, detail |-> None,
          target_status |-> None, timeout |-> 0]

VARIABLES
    mode,          \* "none" | "job" (Job.wait_for) | "sb" (_wait_for_storyboard_session)
    pc,            \* "idle" | "fetch" | "status" | "deadline" | "sleep" | "done"
    target,        \* wait_for's status argument
    timeout,       \* the timeout argument
    pollInterval,  \* the poll_interval argument
    now,           \* time.monotonic()
    calledAt,      \* the clock's reading when the wait was called
    deadline,      \* local deadline
    lastDetail,    \* local _last_detail
    ret,           \* the value the wait returned
    exc,           \* the exception the wait raised
    lastFetchStart,\* clock when the latest primary read was started
    lastFetchEnd,  \* clock when the latest primary read came back
    trace,         \* everything the wait did, in order
    other,         \* the frame of the caller's other wait (a second thread's, or idle)
    clientTimeout, \* the timeout GetMotion(timeout=...) gave to httpx.Client
    wire,          \* the requests handed to httpx.Client.request, in order
    httpIn,        \* the response to the latest request
    httpOut,       \* what HttpClient._request made of it
    initPc,        \* Job.init_storyboard: "idle" | "post" | "wait" | "done"
    initArgs,      \* its timeout and poll_interval arguments
    initData,      \* the body of the POST /storyboard/init response
    session,       \* the StoryboardSession it returned
    initExc,       \* the exception it raised
    op,            \* the method running: "none" | "finalize" | "get_renders" | "upload_audio"
    opPc,          \* its position
    opArg,         \* its argument: get_renders' version, upload_audio's path,
                   \* and for finalize the storyboard_key of self at the call
    reqs,          \* the HTTP requests it has issued, in order
    opRet,         \* what it returned
    opExc,         \* what it raised
    storyboard_key,\* StoryboardSession.storyboard_key
    finalize_data, \* finalize: the body of the first response
    versions,      \* get_renders: the list list_render_versions returned
    presign_data,  \* upload_audio: the targets of the presign response
    uploaded       \* upload_audio: how many targets the loop has gone through

httpVars == <<clientTimeout, wire, httpIn, httpOut>>
initVars == <<initPc, initArgs, initData, session, initExc>>
opVars == <<op, opPc, opArg, reqs, opRet, opExc, storyboard_key, finalize_data, versions,
            presign_data, uploaded>>

frameVars == <<mode, pc, target, timeout, pollInterval, calledAt, deadline, lastDetail,
               ret, exc, lastFetchStart, lastFetchEnd, trace>>

\* What lies outside the frame of the running wait.
extVars == <<other, httpVars, initVars, opVars>>

vars == <<mode, pc, target, timeout, pollInterval, now, calledAt, deadline, lastDetail,
          ret, exc, lastFetchStart, lastFetchEnd, trace, extVars>>

\* The frame of one call of a wait: its arguments, its locals, its position
\* and what it has done.
Frame ==
    [mode |-> mode, pc |-> pc, target |-> target, timeout |-> timeout,
     pollInterval |-> pollInterval, calledAt |-> calledAt, deadline |-> deadline,
     lastDetail |-> lastDetail, ret |-> ret, exc |-> exc,
     lastFetchStart |-> lastFetchStart, lastFetchEnd |-> lastFetchEnd, trace |-> trace]

\* The frame of a wait that has not been called yet.
IdleFrame ==
    [mode |-> "none", pc |-> "idle", target |-> None, timeout |-> 0,
     pollInterval |-> 0, calledAt |-> 0, deadline |-> 0,
     lastDetail |-> None, ret |-> NoRet, exc |-> NoExc,
     lastFetchStart |-> 0, lastFetchEnd |-> 0, trace |-> <<>>]

\* ------------------------------------------------------------- trace
Ev(ev, ok, st, sb, exn, msg) ==
    [ev |-> ev, ok |-> ok, st |-> st, sb |-> sb, exn |-> exn, msg |-> msg]

EvFetchSt(data)  == Ev("fetch",  TRUE,  data, NoSb, "", "")
EvFetchSb(data)  == Ev("fetch",  TRUE,  NoSt, data, "", "")
EvFetchErr(e)    == Ev("fetch",  FALSE, NoSt, NoSb, e,  "")
EvStatus(data)   == Ev("status", TRUE,  data, NoSb, "", "")
EvStatusErr(e)   == Ev("status", FALSE, NoSt, NoSb, e,  "")
EvNotify(detail) == Ev("notify", TRUE,  NoSt, NoSb, "", detail)
EvCheck          == Ev("check",  TRUE,  NoSt, NoSb, "", "")
EvSleep          == Ev("sleep",  TRUE,  NoSt, NoSb, "", "")

\* ------------------------------------------------------------- helpers
\* A mutant of Reached: any end-of-pipeline status counts as reached.
Reached_AnyTerminal(data, status) == data.status = status \/ data.status = "COMPLETED"

\* jobs.py:167  `current == status`
Reached(data, status) == data.status = status

\* jobs.py:171 and storyboard.py:42  `... == "FAILED"`
IsFailed(data) == data.status = _FAILED_STATUS

\* jobs.py:163 and storyboard.py:39  `detail and detail != _last_detail`
\* (None and "" are the falsy values a step_detail takes)
ShouldNotify(detail, last) == detail # None /\ detail # "" /\ detail # last

\* A mutant of JobFailedError: code and detail taken from each other's key.
JobFailedError_Swapped(data) ==
    LET error == IF data.error.present THEN data.error ELSE NoError
    IN  [type |-> "JobFailedError", code |-> error.detail, detail |-> error.code,
         target_status |-> None, timeout |-> 0]

\* jobs.py:172-178, storyboard.py:43-49: `error = data.get("error") or {}`,
\* then JobFailedError(code=error.get("code"), detail=error.get("detail"))
JobFailedError(data) ==
    LET error == IF data.error.present THEN data.error ELSE NoError
    IN  [type |-> "JobFailedError", code |-> error.code, detail |-> error.detail,
         target_status |-> None, timeout |-> 0]

\* exceptions.py:31-40: WaitTimeout(job_id, target_status, timeout)
WaitTimeout(status, t) ==
    [type |-> "WaitTimeout", code |-> None, detail |-> None,
     target_status |-> status, timeout |-> t]

\* An exception raised by an HTTP read, as the caller sees it when nothing
\* catches it.
Propagated(e) ==
    [type |-> e, code |-> None, detail |-> None, target_status |-> None, timeout |-> 0]

\* A mutant of DeadlinePassed: `>` for `>=`.
DeadlinePassed_Strict(t, d) == t > d

\* jobs.py:180 and storyboard.py:55  `time.monotonic() >= deadline`
DeadlinePassed(t, d) == t >= d

\* A mutant of Deadline: the timeout taken as an absolute clock value.
Deadline_NoClock(t, tmo) == tmo

\* jobs.py:154 and storyboard.py:26  `time.monotonic() + timeout`
Deadline(t, tmo) == t + tmo

\* The events one processed status payload adds to the trace, and the
\* _last_detail it leaves (jobs.py:162-165, storyboard.py:38-41).
Notified(detail, last) ==
    IF ShouldNotify(detail, last) THEN <<EvNotify(detail)>> ELSE <<>>

\* A mutant of NextDetail: every detail read, empty ones too, becomes the
\* last-seen value.
NextDetail_Reset(detail, last) == detail

NextDetail(detail, last) ==
    IF ShouldNotify(detail, last) THEN detail ELSE last

\* ------------------------------------------------------------- HttpClient values
\* A timeout as Python and httpx pass it around: a keyword argument left out
\* at the call site, Python's None, a number of seconds, or httpx's sentinel
\* USE_CLIENT_DEFAULT (the default of httpx.Client.request's timeout
\* parameter).
TArg(kind, secs) == [kind |-> kind, secs |-> secs]
ArgOmitted == TArg("omitted", 0)
ArgNone == TArg("None", 0)
USE_CLIENT_DEFAULT == TArg("USE_CLIENT_DEFAULT", 0)
ArgSecs(n) == TArg("secs", n)
Unset == TArg("unset", 0)

\* client.py:48, 68: GetMotion(timeout=...), 60 unless given.
ClientTimeouts == {ArgSecs(5), ArgSecs(60)}

\* The methods that issue a request through HttpClient.get or .post.
CallSites == {"Job.status", "Job.init_storyboard", "StoryboardSession.get",
              "StoryboardSession.chat"}

\* The timeout keyword each of them writes: chat writes timeout=None
\* (storyboard.py:99-103), the others write none (jobs.py:87, 488-491,
\* storyboard.py:86).
SiteTimeout(site) == IF site = "StoryboardSession.chat" THEN ArgNone ELSE ArgOmitted

\* _http.py:27-37: get, post and _request declare timeout=None and pass
\* timeout=timeout on, down to self._client.request.
ParamDefault(arg) == IF arg.kind = "omitted" THEN ArgNone ELSE arg

\* httpx.Client.request as called at _http.py:37: the client's own timeout is
\* used for USE_CLIENT_DEFAULT only; any other value, None included, is the
\* request's timeout, and None is no timeout.
InForce(handed, dflt) == IF handed.kind = "USE_CLIENT_DEFAULT" THEN dflt ELSE handed

\* Response status codes and bodies.
Codes == {200, 202, 204, 301, 400, 401, 404, 409, 500}
Texts == {"{}", "{\"detail\": \"D\"}", "oops", ""}

\* response.json(): the decoded body, or a decoding error.
Json(text) ==
    CASE text = "{}" -> [ok |-> TRUE, keys |-> {}, detail |-> None]
      [] text = "{\"detail\": \"D\"}" -> [ok |-> TRUE, keys |-> {"detail"}, detail |-> "D"]
      [] OTHER -> [ok |-> FALSE, keys |-> {}, detail |-> None]

\* httpx.Response.is_success
IsSuccess(code) == 200 <= code /\ code <= 299

\* _http.py:48-51
DetailOf(text) ==
    IF Json(text).ok /\ "detail" \in Json(text).keys THEN Json(text).detail ELSE text

\* Python's `a or b` on strings.
Or(a, b) == IF a = "" \/ a = None THEN b ELSE a

NoBody == [ok |-> FALSE, keys |-> {}, detail |-> "-"]
Returned(body) ==
    [kind |-> "return", type |-> None, status_code |-> 0, message |-> None,
     detail |-> None, body |-> body]
\* status_code 0 stands for an exception that carries none.
Raised(type, status, message, detail) ==
    [kind |-> "raise", type |-> type, status_code |-> status, message |-> message,
     detail |-> detail, body |-> NoBody]
NoOut == [kind |-> "none", type |-> None, status_code |-> 0, message |-> None,
          detail |-> None, body |-> NoBody]
Pending == [kind |-> "pending", type |-> None, status_code |-> 0, message |-> None,
            detail |-> None, body |-> NoBody]
NoResponse == [code |-> 0, text |-> "-"]

\* ------------------------------------------------------------- init_storyboard values
\* The body of the POST /storyboard/init response: with a session (200) or
\* without one (202, generation queued).
InitResponses == {[session_id |-> "s0", job_id |-> "j"],
                  [job_id |-> "j", status |-> "queued"]}
NoData == [nodata |-> TRUE]
NoSession == [session_id |-> None]
NoArgs == [timeout |-> 0, poll_interval |-> 0]

\* ------------------------------------------------------------- values of the other methods
\* A request as it leaves the SDK: through HttpClient (via "http") or
\* straight through httpx (via "httpx"), with what it carries.
Req(via, method, path, key) == [via |-> via, method |-> method, path |-> path, key |-> key]

\* The session's storyboard_key before finalize, and the keys a finalize
\* response may hold.
InitialKey == "k0"
FinalizeResponses == {[storyboard_key |-> "k1"], [storyboard_key |-> "k2"],
                      [status |-> "ok"]}
NoFinalizeData == [nodata |-> TRUE]

\* get_renders' version argument, and the lists GET renders/versions may
\* return, oldest first.
VersionArgs == {None, "", "v1", "v2"}
VersionLists == {<<>>, <<"v1">>, <<"v1", "v2">>, <<"v2", "v1">>}
RendersOf(v) == [renders |-> <<v>>]
NoRenders == [renders |-> <<>>]
NoOpRet == [renders |-> <<"-">>]

\* upload_audio's path (does the file exist), and the targets a presign
\* response may hold: form uploads (with fields) and plain PUTs.
Paths == {"audio.mp3", "missing.mp3"}
PathExists(path) == path = "audio.mp3"
Target(url, fields) == [url |-> url, fields |-> fields]
TargetLists == {<<>>, <<Target("u1", TRUE)>>, <<Target("u1", FALSE)>>,
                <<Target("u1", FALSE), Target("u2", TRUE)>>,
                <<Target("u1", TRUE), Target("u2", FALSE)>>}
OpErrors == {"GetMotionError", "ConnectError"}

\* ------------------------------------------------------------- Init
Init ==
    /\ mode = "none"
    /\ pc = "idle"
    /\ target = None
    /\ timeout = 0
    /\ pollInterval = 0
    /\ now \in StartTimes
    /\ calledAt = 0
    /\ deadline = 0
    /\ lastDetail = None
    /\ ret = NoRet
    /\ exc = NoExc
    /\ lastFetchStart = 0
    /\ lastFetchEnd = 0
    /\ trace = <<>>
    /\ other = IdleFrame
    /\ clientTimeout = Unset
    /\ wire = <<>>
    /\ httpIn = NoResponse
    /\ httpOut = NoOut
    /\ initPc = "idle"
    /\ initArgs = NoArgs
    /\ initData = NoData
    /\ session = NoSession
    /\ initExc = NoExc
    /\ op = "none"
    /\ opPc = "idle"
    /\ opArg = None
    /\ reqs = <<>>
    /\ opRet = NoOpRet
    /\ opExc = "none"
    /\ storyboard_key = InitialKey
    /\ finalize_data = NoFinalizeData
    /\ versions = <<>>
    /\ presign_data = <<>>
    /\ uploaded = 0

\* ------------------------------------------------------------- Job.wait_for
\* jobs.py:154-157: the call, up to the loop.
CallWaitFor(status, tmo, poll) ==
    /\ pc = "idle"
    /\ mode' = "job"
    /\ target' = status
    /\ timeout' = tmo
    /\ pollInterval' = poll
    /\ deadline' = Deadline(now, tmo)
    /\ lastDetail' = None
    /\ calledAt' = now
    /\ pc' = "fetch"
    /\ UNCHANGED <<now, ret, exc, lastFetchStart, lastFetchEnd, trace>>
    /\ UNCHANGED extVars

\* A mutant of JobFetchErr: the error is swallowed and the loop polls again.
JobFetchErr_Retry(e, d) ==
    /\ mode = "job" /\ pc = "fetch"
    /\ now' = now + d
    /\ lastFetchStart' = now
    /\ lastFetchEnd' = now + d
    /\ trace' = Append(trace, EvFetchErr(e))
    /\ pc' = "deadline"
    /\ UNCHANGED <<mode, target, timeout, pollInterval, calledAt, deadline, lastDetail,
                   ret, exc>>
    /\ UNCHANGED extVars

\* jobs.py:159: self.status() raises; nothing in wait_for catches it.
JobFetchErr(e, d) ==
    /\ mode = "job" /\ pc = "fetch"
    /\ now' = now + d
    /\ lastFetchStart' = now
    /\ lastFetchEnd' = now + d
    /\ trace' = Append(trace, EvFetchErr(e))
    /\ exc' = Propagated(e)
    /\ pc' = "done"
    /\ UNCHANGED <<mode, target, timeout, pollInterval, calledAt, deadline, lastDetail, ret>>
    /\ UNCHANGED extVars

\* A mutant of JobFetchOk: the deadline is tested before the reached test, so
\* a target read that comes back late is reported as a timeout.
JobFetchOk_DeadlineFirst(data, d) ==
    /\ mode = "job" /\ pc = "fetch"
    /\ now' = now + d
    /\ lastFetchStart' = now
    /\ lastFetchEnd' = now + d
    /\ trace' = Append(trace, EvFetchSt(data)) \o Notified(data.step_detail, lastDetail)
    /\ lastDetail' = NextDetail(data.step_detail, lastDetail)
    /\ IF DeadlinePassed(now + d, deadline)
         THEN /\ exc' = WaitTimeout(target, timeout)
              /\ pc' = "done"
              /\ UNCHANGED ret
         ELSE IF Reached(data, target)
         THEN /\ ret' = [kind |-> "status", st |-> data, sb |-> NoSb]
              /\ pc' = "done"
              /\ UNCHANGED exc
         ELSE IF IsFailed(data)
         THEN /\ exc' = JobFailedError(data)
              /\ pc' = "done"
              /\ UNCHANGED ret
         ELSE /\ pc' = "deadline"
              /\ UNCHANGED <<ret, exc>>
    /\ UNCHANGED <<mode, target, timeout, pollInterval, calledAt, deadline>>
    /\ UNCHANGED extVars

\* jobs.py:159-178: self.status() returns data; notify, then reached, then failed.
JobFetchOk(data, d) ==
    /\ mode = "job" /\ pc = "fetch"
    /\ now' = now + d
    /\ lastFetchStart' = now
    /\ lastFetchEnd' = now + d
    /\ trace' = Append(trace, EvFetchSt(data)) \o Notified(data.step_detail, lastDetail)
    /\ lastDetail' = NextDetail(data.step_detail, lastDetail)
    /\ IF Reached(data, target)
         THEN /\ ret' = [kind |-> "status", st |-> data, sb |-> NoSb]
              /\ pc' = "done"
              /\ UNCHANGED exc
         ELSE IF IsFailed(data)
         THEN /\ exc' = JobFailedError(data)
              /\ pc' = "done"
              /\ UNCHANGED ret
         ELSE /\ pc' = "deadline"
              /\ UNCHANGED <<ret, exc>>
    /\ UNCHANGED <<mode, target, timeout, pollInterval, calledAt, deadline>>
    /\ UNCHANGED extVars

\* A mutant of JobDeadline: the loop is left with `break`, so wait_for falls
\* off its end and neither returns a payload nor raises.
JobDeadline_Break ==
    /\ mode = "job" /\ pc = "deadline"
    /\ trace' = Append(trace, EvCheck)
    /\ pc' = IF DeadlinePassed(now, deadline) THEN "done" ELSE "sleep"
    /\ UNCHANGED <<mode, target, timeout, pollInterval, calledAt, now, deadline, lastDetail,
                   ret, exc, lastFetchStart, lastFetchEnd>>
    /\ UNCHANGED extVars

\* jobs.py:180-181
JobDeadline ==
    /\ mode = "job" /\ pc = "deadline"
    /\ trace' = Append(trace, EvCheck)
    /\ IF DeadlinePassed(now, deadline)
         THEN /\ exc' = WaitTimeout(target, timeout)
              /\ pc' = "done"
         ELSE /\ pc' = "sleep"
              /\ UNCHANGED exc
    /\ UNCHANGED <<mode, target, timeout, pollInterval, calledAt, now, deadline, lastDetail,
                   ret, lastFetchStart, lastFetchEnd>>
    /\ UNCHANGED extVars

\* A mutant of JobSleep: the loop polls again without sleeping.
JobSleep_BusySpin ==
    /\ mode = "job" /\ pc = "sleep"
    /\ pc' = "fetch"
    /\ UNCHANGED <<mode, target, timeout, pollInterval, now, calledAt, deadline, lastDetail,
                   ret, exc, lastFetchStart, lastFetchEnd, trace>>
    /\ UNCHANGED extVars

\* jobs.py:183
JobSleep ==
    /\ mode = "job" /\ pc = "sleep"
    /\ now' = now + pollInterval
    /\ trace' = Append(trace, EvSleep)
    /\ pc' = "fetch"
    /\ UNCHANGED <<mode, target, timeout, pollInterval, calledAt, deadline, lastDetail,
                   ret, exc, lastFetchStart, lastFetchEnd>>
    /\ UNCHANGED extVars

\* ------------------------------------------------------------- _wait_for_storyboard_session
\* storyboard.py:26-28
StartWaitStoryboard(tmo, poll) ==
    /\ pc = "idle"
    /\ mode' = "sb"
    /\ target' = "STORYBOARD_READY"
    /\ timeout' = tmo
    /\ pollInterval' = poll
    /\ deadline' = Deadline(now, tmo)
    /\ lastDetail' = None
    /\ calledAt' = now
    /\ pc' = "fetch"
    /\ UNCHANGED <<now, ret, exc, lastFetchStart, lastFetchEnd, trace>>

\* The wait called on its own.
CallWaitStoryboard(tmo, poll) ==
    /\ StartWaitStoryboard(tmo, poll)
    /\ UNCHANGED extVars

\* A mutant of SbFetchErr: the try block also covers the storyboard read.
SbFetchErr_Swallow(e, d) ==
    /\ mode = "sb" /\ pc = "fetch"
    /\ now' = now + d
    /\ lastFetchStart' = now
    /\ lastFetchEnd' = now + d
    /\ trace' = Append(trace, EvFetchErr(e))
    /\ pc' = "deadline"
    /\ UNCHANGED <<mode, target, timeout, pollInterval, calledAt, deadline, lastDetail,
                   ret, exc>>
    /\ UNCHANGED extVars

\* storyboard.py:31: http.get(.../storyboard) raises, outside the try block.
SbFetchErr(e, d) ==
    /\ mode = "sb" /\ pc = "fetch"
    /\ now' = now + d
    /\ lastFetchStart' = now
    /\ lastFetchEnd' = now + d
    /\ trace' = Append(trace, EvFetchErr(e))
    /\ exc' = Propagated(e)
    /\ pc' = "done"
    /\ UNCHANGED <<mode, target, timeout, pollInterval, calledAt, deadline, lastDetail, ret>>
    /\ UNCHANGED extVars

\* A mutant of SbFetchOk: the job status is read before an existing
\* storyboard is returned.
SbFetchOk_StatusFirst(data, d) ==
    /\ mode = "sb" /\ pc = "fetch"
    /\ now' = now + d
    /\ lastFetchStart' = now
    /\ lastFetchEnd' = now + d
    /\ trace' = Append(trace, EvFetchSb(data))
    /\ pc' = "status"
    /\ UNCHANGED <<mode, target, timeout, pollInterval, calledAt, deadline, lastDetail,
                   ret, exc>>
    /\ UNCHANGED extVars

\* storyboard.py:31-33
SbFetchOk(data, d) ==
    /\ mode = "sb" /\ pc = "fetch"
    /\ now' = now + d
    /\ lastFetchStart' = now
    /\ lastFetchEnd' = now + d
    /\ trace' = Append(trace, EvFetchSb(data))
    /\ IF data.exists
         THEN /\ ret' = [kind |-> "storyboard", st |-> NoSt, sb |-> data]
              /\ pc' = "done"
         ELSE /\ pc' = "status"
              /\ UNCHANGED ret
    /\ UNCHANGED <<mode, target, timeout, pollInterval, calledAt, deadline, lastDetail, exc>>
    /\ UNCHANGED extVars

\* A mutant of SbStatusErr: no `except Exception: pass`, the error propagates.
SbStatusErr_Propagate(e, d) ==
    /\ mode = "sb" /\ pc = "status"
    /\ now' = now + d
    /\ trace' = Append(trace, EvStatusErr(e))
    /\ exc' = Propagated(e)
    /\ pc' = "done"
    /\ UNCHANGED <<mode, target, timeout, pollInterval, calledAt, deadline, lastDetail,
                   ret, lastFetchStart, lastFetchEnd>>
    /\ UNCHANGED extVars

\* storyboard.py:36-37, 52-53: the status read raises; `except Exception: pass`.
SbStatusErr(e, d) ==
    /\ mode = "sb" /\ pc = "status"
    /\ now' = now + d
    /\ trace' = Append(trace, EvStatusErr(e))
    /\ pc' = "deadline"
    /\ UNCHANGED <<mode, target, timeout, pollInterval, calledAt, deadline, lastDetail,
                   ret, exc, lastFetchStart, lastFetchEnd>>
    /\ UNCHANGED extVars

\* A mutant of SbStatusOk: no `except JobFailedError: raise`, so the blanket
\* `except Exception: pass` swallows the failure.
SbStatusOk_Swallowed(data, d) ==
    /\ mode = "sb" /\ pc = "status"
    /\ now' = now + d
    /\ trace' = Append(trace, EvStatus(data)) \o Notified(data.step_detail, lastDetail)
    /\ lastDetail' = NextDetail(data.step_detail, lastDetail)
    /\ pc' = "deadline"
    /\ UNCHANGED <<mode, target, timeout, pollInterval, calledAt, deadline, ret, exc,
                   lastFetchStart, lastFetchEnd>>
    /\ UNCHANGED extVars

\* storyboard.py:36-51: the status read returns; notify, then the FAILED check,
\* whose JobFailedError is re-raised by `except JobFailedError: raise`.
SbStatusOk(data, d) ==
    /\ mode = "sb" /\ pc = "status"
    /\ now' = now + d
    /\ trace' = Append(trace, EvStatus(data)) \o Notified(data.step_detail, lastDetail)
    /\ lastDetail' = NextDetail(data.step_detail, lastDetail)
    /\ IF IsFailed(data)
         THEN /\ exc' = JobFailedError(data)
              /\ pc' = "done"
         ELSE /\ pc' = "deadline"
              /\ UNCHANGED exc
    /\ UNCHANGED <<mode, target, timeout, pollInterval, calledAt, deadline, ret,
                   lastFetchStart, lastFetchEnd>>
    /\ UNCHANGED extVars

\* A mutant of SbDeadline: the loop has no deadline check.
SbDeadline_NoCheck ==
    /\ mode = "sb" /\ pc = "deadline"
    /\ trace' = Append(trace, EvCheck)
    /\ pc' = "sleep"
    /\ UNCHANGED <<mode, target, timeout, pollInterval, calledAt, now, deadline, lastDetail,
                   ret, exc, lastFetchStart, lastFetchEnd>>
    /\ UNCHANGED extVars

\* storyboard.py:55-56
SbDeadline ==
    /\ mode = "sb" /\ pc = "deadline"
    /\ trace' = Append(trace, EvCheck)
    /\ IF DeadlinePassed(now, deadline)
         THEN /\ exc' = WaitTimeout("STORYBOARD_READY", timeout)
              /\ pc' = "done"
         ELSE /\ pc' = "sleep"
              /\ UNCHANGED exc
    /\ UNCHANGED <<mode, target, timeout, pollInterval, calledAt, now, deadline, lastDetail,
                   ret, lastFetchStart, lastFetchEnd>>
    /\ UNCHANGED extVars

\* A mutant of SbSleep: after the sleep the loop resumes at the status read.
SbSleep_StatusOnly ==
    /\ mode = "sb" /\ pc = "sleep"
    /\ now' = now + pollInterval
    /\ trace' = Append(trace, EvSleep)
    /\ pc' = "status"
    /\ UNCHANGED <<mode, target, timeout, pollInterval, calledAt, deadline, lastDetail,
                   ret, exc, lastFetchStart, lastFetchEnd>>
    /\ UNCHANGED extVars

\* storyboard.py:58
SbSleep ==
    /\ mode = "sb" /\ pc = "sleep"
    /\ now' = now + pollInterval
    /\ trace' = Append(trace, EvSleep)
    /\ pc' = "fetch"
    /\ UNCHANGED <<mode, target, timeout, pollInterval, calledAt, deadline, lastDetail,
                   ret, exc, lastFetchStart, lastFetchEnd>>
    /\ UNCHANGED extVars

\* ------------------------------------------------------------- two waits
\* A mutant of Switch: _last_detail is kept in one place for all waits (a
\* module-level or instance attribute) instead of in the frame.
Switch_SharedDetail ==
    /\ other' = Frame
    /\ mode' = other.mode
    /\ pc' = other.pc
    /\ target' = other.target
    /\ timeout' = other.timeout
    /\ pollInterval' = other.pollInterval
    /\ calledAt' = other.calledAt
    /\ deadline' = other.deadline
    /\ ret' = other.ret
    /\ exc' = other.exc
    /\ lastFetchStart' = other.lastFetchStart
    /\ lastFetchEnd' = other.lastFetchEnd
    /\ trace' = other.trace
    /\ UNCHANGED <<now, lastDetail>>
    /\ UNCHANGED <<httpVars, initVars, opVars>>

\* jobs.py:154-157, storyboard.py:26-27: deadline and _last_detail are locals
\* of the call, so each call has its own frame.  The caller's other wait
\* takes over: on a thread switch, or as the next call once this one is over.
\* The clock is the one thing both read.
Switch ==
    /\ other' = Frame
    /\ mode' = other.mode
    /\ pc' = other.pc
    /\ target' = other.target
    /\ timeout' = other.timeout
    /\ pollInterval' = other.pollInterval
    /\ calledAt' = other.calledAt
    /\ deadline' = other.deadline
    /\ lastDetail' = other.lastDetail
    /\ ret' = other.ret
    /\ exc' = other.exc
    /\ lastFetchStart' = other.lastFetchStart
    /\ lastFetchEnd' = other.lastFetchEnd
    /\ trace' = other.trace
    /\ UNCHANGED now
    /\ UNCHANGED <<httpVars, initVars, opVars>>

\* ------------------------------------------------------------- specification
Timeouts      == 0..MaxTimeout
PollIntervals == {1, MaxPoll}
FetchTimes    == {0, MaxFetchTime}

Next ==
    \/ \E s \in Targets, t \in Timeouts, p \in PollIntervals : CallWaitFor(s, t, p)
    \/ \E e \in TransportErrors, d \in FetchTimes : JobFetchErr(e, d)
    \/ \E data \in StatusPayloads, d \in FetchTimes : JobFetchOk(data, d)
    \/ JobDeadline
    \/ JobSleep
    \/ \E t \in Timeouts, p \in PollIntervals : CallWaitStoryboard(t, p)
    \/ \E e \in TransportErrors, d \in FetchTimes : SbFetchErr(e, d)
    \/ \E data \in SbPayloads, d \in FetchTimes : SbFetchOk(data, d)
    \/ \E e \in TransportErrors, d \in FetchTimes : SbStatusErr(e, d)
    \/ \E data \in StatusPayloads, d \in FetchTimes : SbStatusOk(data, d)
    \/ SbDeadline
    \/ SbSleep

Spec == Init /\ [][Next]_vars

\* Two waits of one caller, interleaved or one after the other, over a
\* smaller alphabet: instant reads, poll_interval 1.
PairMaxTimeout == 1
PairPayloads ==
    {[status |-> "RUNNING",      step_detail |-> "A",  error |-> NoError],
     [status |-> "COMPLETED",    step_detail |-> "A",  error |-> NoError],
     [status |-> _FAILED_STATUS, step_detail |-> None, error |-> NoError]}

NextPair ==
    \/ Switch
    \/ \E t \in 0..PairMaxTimeout : CallWaitFor("COMPLETED", t, 1)
    \/ JobFetchErr("ConnectError", 0)
    \/ \E data \in PairPayloads : JobFetchOk(data, 0)
    \/ JobDeadline
    \/ JobSleep
    \/ \E t \in 0..PairMaxTimeout : CallWaitStoryboard(t, 1)
    \/ SbFetchErr("ConnectError", 0)
    \/ \E data \in SbPayloads : SbFetchOk(data, 0)
    \/ SbStatusErr("ConnectError", 0)
    \/ \E data \in PairPayloads : SbStatusOk(data, 0)
    \/ SbDeadline
    \/ SbSleep

SpecPair == Init /\ [][NextPair]_vars

\* A wait that is scheduled until it ends, poll_interval 0 included.  Every
\* read returns or raises and every sleep returns (weak fairness of the
\* steps), and with poll_interval 0 every read takes time, so that the clock
\* goes on.
LiveMaxTimeout == 2
LivePolls == {0, 1}
LiveFetchTimes == {d \in FetchTimes : pollInterval > 0 \/ d > 0}
NextLive == \/ \E t \in 0..LiveMaxTimeout, p \in LivePolls : CallWaitFor("COMPLETED", t, p)
            \/ \E d \in LiveFetchTimes : JobFetchErr("ConnectError", d)
            \/ \E data \in PairPayloads, d \in LiveFetchTimes : JobFetchOk(data, d)
            \/ JobDeadline \/ JobSleep
            \/ \E t \in 0..LiveMaxTimeout, p \in LivePolls : CallWaitStoryboard(t, p)
            \/ \E d \in LiveFetchTimes : SbFetchErr("ConnectError", d)
            \/ \E data \in SbPayloads, d \in LiveFetchTimes : SbFetchOk(data, d)
            \/ \E d \in LiveFetchTimes : SbStatusErr("ConnectError", d)
            \/ \E data \in PairPayloads, d \in LiveFetchTimes : SbStatusOk(data, d)
            \/ SbDeadline \/ SbSleep

SpecLive == Init /\ [][NextLive]_vars /\ WF_vars(NextLive)

\* ------------------------------------------------------------- HttpClient
MaxRequests == 2

\* client.py:44-68, _http.py:20-25: the configured timeout becomes the
\* timeout of the httpx.Client.
GetMotionInit(t) ==
    /\ clientTimeout = Unset
    /\ clientTimeout' = t
    /\ UNCHANGED <<wire, httpIn, httpOut>>
    /\ UNCHANGED <<frameVars, now, other, initVars, opVars>>

\* _http.py:27-37: a call site's request, as it reaches httpx.Client.request.
HttpRequest(site) ==
    /\ clientTimeout # Unset
    /\ httpOut.kind # "pending"
    /\ Len(wire) < MaxRequests
    /\ LET handed == ParamDefault(SiteTimeout(site))
       IN  wire' = Append(wire, [site |-> site, handed |-> handed,
                                 inForce |-> InForce(handed, clientTimeout)])
    /\ httpIn' = NoResponse
    /\ httpOut' = Pending
    /\ UNCHANGED clientTimeout
    /\ UNCHANGED <<frameVars, now, other, initVars, opVars>>

\* _http.py:44-60
RaiseForStatus(code, text) ==
    LET detail == DetailOf(text)
    IN  CASE code = 401 ->
                 Raised("AuthenticationError", code, "Invalid or missing API key.", detail)
          [] code = 404 ->
                 Raised("NotFoundError", code, Or(detail, "Resource not found."), None)
          [] code = 409 ->
                 Raised("ConflictError", code, Or(detail, "Conflict."), None)
          [] OTHER ->
                 Raised("GetMotionError", code, Or(detail, "HTTP <status>"), detail)

\* _http.py:41-42: _raise_for_status, then response.json().
RequestResult(code, text) ==
    IF IsSuccess(code)
    THEN IF Json(text).ok
         THEN Returned(Json(text))
         ELSE Raised("JSONDecodeError", 0, None, None)
    ELSE RaiseForStatus(code, text)

\* _http.py:37-42: the response comes back.
HttpResponse(code, text) ==
    /\ httpOut = Pending
    /\ httpIn' = [code |-> code, text |-> text]
    /\ httpOut' = RequestResult(code, text)
    /\ UNCHANGED <<clientTimeout, wire>>
    /\ UNCHANGED <<frameVars, now, other, initVars, opVars>>

NextHttp == \/ \E t \in ClientTimeouts : GetMotionInit(t)
            \/ \E site \in CallSites : HttpRequest(site)
            \/ \E code \in Codes, text \in Texts : HttpResponse(code, text)

SpecHttp == Init /\ [][NextHttp]_vars

\* ------------------------------------------------------------- Job.init_storyboard
\* jobs.py:500-507: the session made of a payload.
SessionFrom(data) == [session_id |-> data.session_id]

\* jobs.py:444-450, 487: the call, up to the POST.
CallInitStoryboard(tmo, poll) ==
    /\ initPc = "idle" /\ mode = "none"
    /\ initPc' = "post"
    /\ initArgs' = [timeout |-> tmo, poll_interval |-> poll]
    /\ UNCHANGED <<initData, session, initExc>>
    /\ UNCHANGED <<frameVars, now, other, httpVars, opVars>>

\* jobs.py:488-491: the POST raises, and nothing catches it.
InitPostErr(e) ==
    /\ initPc = "post"
    /\ initExc' = Propagated(e)
    /\ initPc' = "done"
    /\ UNCHANGED <<initArgs, initData, session>>
    /\ UNCHANGED <<frameVars, now, other, httpVars, opVars>>

\* A mutant of InitPostOk: the wait is entered whatever the response holds.
InitPostOk_AlwaysPoll(data) ==
    /\ initPc = "post"
    /\ initData' = data
    /\ initPc' = "wait"
    /\ StartWaitStoryboard(initArgs.timeout, initArgs.poll_interval)
    /\ UNCHANGED <<initArgs, initExc, session>>
    /\ UNCHANGED <<other, httpVars, opVars>>

\* jobs.py:488-507: the POST answers; with a session_id in the answer the
\* session is made of it at once, without one the wait is entered.
InitPostOk(data) ==
    /\ initPc = "post"
    /\ initData' = data
    /\ IF "session_id" \notin DOMAIN data
         THEN /\ initPc' = "wait"
              /\ StartWaitStoryboard(initArgs.timeout, initArgs.poll_interval)
              /\ UNCHANGED session
         ELSE /\ session' = SessionFrom(data)
              /\ initPc' = "done"
              /\ UNCHANGED <<frameVars, now>>
    /\ UNCHANGED <<initArgs, initExc>>
    /\ UNCHANGED <<other, httpVars, opVars>>

\* jobs.py:496-507: the wait is over; what it raised goes on to the caller,
\* what it returned becomes the session.
InitWaitOver ==
    /\ initPc = "wait" /\ mode = "sb" /\ pc = "done"
    /\ IF exc # NoExc
         THEN initExc' = exc /\ UNCHANGED session
         ELSE session' = SessionFrom(ret.sb) /\ UNCHANGED initExc
    /\ initPc' = "done"
    /\ UNCHANGED <<initArgs, initData>>
    /\ UNCHANGED <<frameVars, now, other, httpVars, opVars>>

InitTimeouts == {0, 1}
NextInit == \/ \E t \in InitTimeouts : CallInitStoryboard(t, 1)
            \/ \E e \in TransportErrors : InitPostErr(e)
            \/ \E data \in InitResponses : InitPostOk(data)
            \/ \E e \in TransportErrors, d \in FetchTimes : SbFetchErr(e, d)
            \/ \E data \in SbPayloads, d \in FetchTimes : SbFetchOk(data, d)
            \/ \E e \in TransportErrors, d \in FetchTimes : SbStatusErr(e, d)
            \/ \E data \in StatusPayloads, d \in FetchTimes : SbStatusOk(data, d)
            \/ SbDeadline \/ SbSleep
            \/ InitWaitOver

SpecInit == Init /\ [][NextInit]_vars

\* ------------------------------------------------------------- StoryboardSession.finalize
waitVars == <<frameVars, now, other, httpVars, initVars>>

\* storyboard.py:123-125: the call, up to the first POST.
CallFinalize ==
    /\ op = "none"
    /\ op' = "finalize"
    /\ opArg' = storyboard_key
    /\ opPc' = "finalize"
    /\ reqs' = Append(reqs, Req("http", "POST", "/storyboard/{session_id}/finalize", None))
    /\ UNCHANGED <<opRet, opExc, storyboard_key, finalize_data, versions,
                   presign_data, uploaded>>
    /\ UNCHANGED waitVars

\* storyboard.py:125: the first POST raises.
FinalizeErr(e) ==
    /\ op = "finalize" /\ opPc = "finalize"
    /\ opExc' = e
    /\ opPc' = "done"
    /\ UNCHANGED <<op, opArg, reqs, opRet, storyboard_key, finalize_data, versions,
                   presign_data, uploaded>>
    /\ UNCHANGED waitVars

\* A mutant of FinalizeOk: the session's key is left for after the review.
FinalizeOk_KeyLater(data) ==
    /\ op = "finalize" /\ opPc = "finalize"
    /\ finalize_data' = data
    /\ IF "storyboard_key" \in DOMAIN data
         THEN /\ reqs' = Append(reqs, Req("http", "POST", "/jobs/{job_id}/review",
                                          data.storyboard_key))
              /\ opPc' = "review"
              /\ UNCHANGED opExc
         ELSE /\ opExc' = "KeyError"
              /\ opPc' = "done"
              /\ UNCHANGED reqs
    /\ UNCHANGED <<op, opArg, opRet, storyboard_key, versions, presign_data, uploaded>>
    /\ UNCHANGED waitVars

\* storyboard.py:125-138: the first POST answers; its storyboard_key becomes
\* the session's, and the review POST carries it.
FinalizeOk(data) ==
    /\ op = "finalize" /\ opPc = "finalize"
    /\ finalize_data' = data
    /\ IF "storyboard_key" \in DOMAIN data
         THEN /\ storyboard_key' = data.storyboard_key
              /\ reqs' = Append(reqs, Req("http", "POST", "/jobs/{job_id}/review",
                                          data.storyboard_key))
              /\ opPc' = "review"
              /\ UNCHANGED opExc
         ELSE /\ opExc' = "KeyError"
              /\ opPc' = "done"
              /\ UNCHANGED <<storyboard_key, reqs>>
    /\ UNCHANGED <<op, opArg, opRet, versions, presign_data, uploaded>>
    /\ UNCHANGED waitVars

\* storyboard.py:130-138: the review POST raises.
ReviewErr(e) ==
    /\ op = "finalize" /\ opPc = "review"
    /\ opExc' = e
    /\ opPc' = "done"
    /\ UNCHANGED <<op, opArg, reqs, opRet, storyboard_key, finalize_data, versions,
                   presign_data, uploaded>>
    /\ UNCHANGED waitVars

\* storyboard.py:130-139: the review POST answers, finalize returns None.
ReviewOk ==
    /\ op = "finalize" /\ opPc = "review"
    /\ opPc' = "done"
    /\ UNCHANGED <<op, opArg, reqs, opRet, opExc, storyboard_key, finalize_data, versions,
                   presign_data, uploaded>>
    /\ UNCHANGED waitVars

\* ------------------------------------------------------------- Job.get_renders
ListRequest == Req("http", "GET", "/jobs/{id}/renders/versions", None)
VersionRequest(v) == Req("http", "GET", "/jobs/{id}/renders/versions/{version}", v)

\* Python's truth of the version argument (jobs.py:565).
Given(version) == version # None /\ version # ""

\* jobs.py:565-567, 584: the call, up to its first request.
CallGetRenders(version) ==
    /\ op = "none"
    /\ op' = "get_renders"
    /\ opArg' = version
    /\ IF Given(version)
         THEN /\ reqs' = Append(reqs, VersionRequest(version))
              /\ opPc' = "get"
         ELSE /\ reqs' = Append(reqs, ListRequest)
              /\ opPc' = "list"
    /\ UNCHANGED <<opRet, opExc, storyboard_key, finalize_data, versions, presign_data,
                   uploaded>>
    /\ UNCHANGED waitVars

\* jobs.py:584: the listing raises.
ListErr(e) ==
    /\ op = "get_renders" /\ opPc = "list"
    /\ opExc' = e
    /\ opPc' = "done"
    /\ UNCHANGED <<op, opArg, reqs, opRet, storyboard_key, finalize_data, versions,
                   presign_data, uploaded>>
    /\ UNCHANGED waitVars

\* A mutant of ListOk: the first entry of the list is requested.
ListOk_First(vs) ==
    /\ op = "get_renders" /\ opPc = "list"
    /\ versions' = vs
    /\ IF vs = <<>>
         THEN /\ opRet' = NoRenders
              /\ opPc' = "done"
              /\ UNCHANGED reqs
         ELSE /\ reqs' = Append(reqs, VersionRequest(vs[1]))
              /\ opPc' = "get"
              /\ UNCHANGED opRet
    /\ UNCHANGED <<op, opArg, opExc, storyboard_key, finalize_data, presign_data, uploaded>>
    /\ UNCHANGED waitVars

\* jobs.py:567-572, 584-585: the listing answers; an empty list is answered
\* without a request, otherwise the last entry is requested.
ListOk(vs) ==
    /\ op = "get_renders" /\ opPc = "list"
    /\ versions' = vs
    /\ IF vs = <<>>
         THEN /\ opRet' = NoRenders
              /\ opPc' = "done"
              /\ UNCHANGED reqs
         ELSE /\ reqs' = Append(reqs, VersionRequest(vs[Len(vs)]))
              /\ opPc' = "get"
              /\ UNCHANGED opRet
    /\ UNCHANGED <<op, opArg, opExc, storyboard_key, finalize_data, presign_data, uploaded>>
    /\ UNCHANGED waitVars

\* jobs.py:566, 572: the request for a version raises.
GetVersionErr(e) ==
    /\ op = "get_renders" /\ opPc = "get"
    /\ opExc' = e
    /\ opPc' = "done"
    /\ UNCHANGED <<op, opArg, reqs, opRet, storyboard_key, finalize_data, versions,
                   presign_data, uploaded>>
    /\ UNCHANGED waitVars

\* jobs.py:566, 572: the request for a version answers with that version's
\* renders, which get_renders returns.
GetVersionOk ==
    /\ op = "get_renders" /\ opPc = "get"
    /\ opRet' = RendersOf(reqs[Len(reqs)].key)
    /\ opPc' = "done"
    /\ UNCHANGED <<op, opArg, reqs, opExc, storyboard_key, finalize_data, versions,
                   presign_data, uploaded>>
    /\ UNCHANGED waitVars

\* ------------------------------------------------------------- Job.upload_audio
PresignRequest == Req("http", "POST", "/presign", None)

\* jobs.py:226-238: a form POST for a target with fields, a PUT otherwise,
\* both straight through httpx.
UploadRequest(tgt) ==
    Req("httpx", IF tgt.fields THEN "POST" ELSE "PUT", tgt.url, None)

\* What an upload raises: response.raise_for_status(), or the transport.
UploadErrors == {"HTTPStatusError", "ConnectError"}

\* jobs.py:206-218: the call, up to the presign request.
CallUploadAudio(path) ==
    /\ op = "none"
    /\ op' = "upload_audio"
    /\ opArg' = path
    /\ IF PathExists(path)
         THEN /\ reqs' = Append(reqs, PresignRequest)
              /\ opPc' = "presign"
              /\ UNCHANGED opExc
         ELSE /\ opExc' = "FileNotFoundError"
              /\ opPc' = "done"
              /\ UNCHANGED reqs
    /\ UNCHANGED <<opRet, storyboard_key, finalize_data, versions, presign_data, uploaded>>
    /\ UNCHANGED waitVars

\* jobs.py:215-218: the presign request raises.
PresignErr(e) ==
    /\ op = "upload_audio" /\ opPc = "presign"
    /\ opExc' = e
    /\ opPc' = "done"
    /\ UNCHANGED <<op, opArg, reqs, opRet, storyboard_key, finalize_data, versions,
                   presign_data, uploaded>>
    /\ UNCHANGED waitVars

\* jobs.py:215-238: the presign request answers; targets[0] is read (an
\* empty list raises IndexError), the file is read, and the loop over the
\* targets issues its first upload.
PresignOk(targets) ==
    /\ op = "upload_audio" /\ opPc = "presign"
    /\ presign_data' = targets
    /\ IF targets = <<>>
         THEN /\ opExc' = "IndexError"
              /\ opPc' = "done"
              /\ UNCHANGED reqs
         ELSE /\ reqs' = Append(reqs, UploadRequest(targets[1]))
              /\ opPc' = "upload"
              /\ UNCHANGED opExc
    /\ UNCHANGED <<op, opArg, opRet, storyboard_key, finalize_data, versions, uploaded>>
    /\ UNCHANGED waitVars

\* jobs.py:238: the upload fails, and the exception leaves the loop.
UploadErr(e) ==
    /\ op = "upload_audio" /\ opPc = "upload"
    /\ opExc' = e
    /\ opPc' = "done"
    /\ UNCHANGED <<op, opArg, reqs, opRet, storyboard_key, finalize_data, versions,
                   presign_data, uploaded>>
    /\ UNCHANGED waitVars

\* jobs.py:225-239: the upload succeeds; the loop goes on to the next target
\* of the list, and upload_audio returns after the last.
UploadOk ==
    /\ op = "upload_audio" /\ opPc = "upload"
    /\ uploaded' = uploaded + 1
    /\ IF uploaded + 1 < Len(presign_data)
         THEN /\ reqs' = Append(reqs, UploadRequest(presign_data[uploaded + 2]))
              /\ UNCHANGED opPc
         ELSE /\ opPc' = "done"
              /\ UNCHANGED reqs
    /\ UNCHANGED <<op, opArg, opRet, opExc, storyboard_key, finalize_data, versions,
                   presign_data>>
    /\ UNCHANGED waitVars

\* The method is over and the caller goes on: the frame of the call is gone,
\* the session keeps its storyboard_key.
OpReturn ==
    /\ op # "none" /\ opPc = "done"
    /\ op' = "none"
    /\ opPc' = "idle"
    /\ opArg' = None
    /\ reqs' = <<>>
    /\ opRet' = NoOpRet
    /\ opExc' = "none"
    /\ finalize_data' = NoFinalizeData
    /\ versions' = <<>>
    /\ presign_data' = <<>>
    /\ uploaded' = 0
    /\ UNCHANGED storyboard_key
    /\ UNCHANGED waitVars

\* Calls of the three methods, one after the other.
NextOps == \/ OpReturn
           \/ CallFinalize
           \/ \E e \in OpErrors : FinalizeErr(e)
           \/ \E data \in FinalizeResponses : FinalizeOk(data)
           \/ \E e \in OpErrors : ReviewErr(e)
           \/ ReviewOk
           \/ \E v \in VersionArgs : CallGetRenders(v)
           \/ \E e \in OpErrors : ListErr(e)
           \/ \E vs \in VersionLists : ListOk(vs)
           \/ \E e \in OpErrors : GetVersionErr(e)
           \/ GetVersionOk
           \/ \E path \in Paths : CallUploadAudio(path)
           \/ \E e \in OpErrors : PresignErr(e)
           \/ \E targets \in TargetLists : PresignOk(targets)
           \/ \E e \in UploadErrors : UploadErr(e)
           \/ UploadOk

SpecOps == Init /\ [][NextOps]_vars

\* ------------------------------------------------------------- reading the trace
IsFetch(e)  == e.ev = "fetch"
IsStatus(e) == e.ev = "status"
IsSleep(e)  == e.ev = "sleep"
IsNotify(e) == e.ev = "notify"

\* The primary reads made so far (status() in wait_for, GET storyboard in the
\* storyboard wait), the sleeps, and the notifications, each in order.
Fetches  == SelectSeq(trace, IsFetch)
NFetches == Len(Fetches)
NSleeps  == Len(SelectSeq(trace, IsSleep))
Notes    == LET N == SelectSeq(trace, IsNotify) IN [i \in 1..Len(N) |-> N[i].msg]

\* The status payloads the wait has read: the primary reads of wait_for, the
\* secondary reads of the storyboard wait.
IsStatusRead(e) == e.ok /\ ((mode = "job" /\ IsFetch(e)) \/ (mode = "sb" /\ IsStatus(e)))
StatusReads     == SelectSeq(trace, IsStatusRead)
ObservedDetails == [i \in 1..Len(StatusReads) |-> StatusReads[i].st.step_detail]

\* The code and detail a JobFailedError is to carry for a payload.
ErrorCodeOf(data)   == IF data.error.present THEN data.error.code ELSE None
ErrorDetailOf(data) == IF data.error.present THEN data.error.detail ELSE None

\* Index of the last primary read in the trace (0 when there is none).
LastFetchIndex ==
    LET I == {i \in DOMAIN trace : IsFetch(trace[i])}
    IN  IF I = {} THEN 0 ELSE CHOOSE i \in I : \A j \in I : j <= i

\* Nothing but the notification of the last read follows it in the trace.
NothingAfterLastFetch ==
    \A i \in DOMAIN trace : i > LastFetchIndex => IsNotify(trace[i])

\* ------------------------------------------------------------- C1
\* C1: Job.wait_for returns exactly the payload of the first status read whose
\* status is the target: whenever the latest read has status == target the wait
\* has returned that payload, and a returned payload is that of the N-th and
\* last read, none of the N-1 reads before it had the target status, and N
\* reads and N-1 sleeps were made.
C1_ReturnsFirstReached ==
    mode = "job" =>
        LET n == NFetches IN
        /\ (n >= 1 /\ Fetches[n].ok /\ Fetches[n].st.status = target)
              => /\ pc = "done"
                 /\ ret = [kind |-> "status", st |-> Fetches[n].st, sb |-> NoSb]
        /\ ret # NoRet
              => /\ pc = "done" /\ exc = NoExc
                 /\ n >= 1 /\ Fetches[n].ok
                 /\ ret = [kind |-> "status", st |-> Fetches[n].st, sb |-> NoSb]
                 /\ ret.st.status = target
                 /\ \A i \in 1..(n - 1) :
                        Fetches[i].ok /\ Fetches[i].st.status \notin {target, "FAILED"}
                 /\ NSleeps = n - 1
                 /\ NothingAfterLastFetch

\* C1 witness: the target was reached on the third read.
C1_Witness ==
    /\ mode = "job" /\ pc = "done" /\ ret # NoRet
    /\ NFetches = 3 /\ NSleeps = 2

\* ------------------------------------------------------------- C2
\* C2: in Job.wait_for, a read with status FAILED that is not the target ends
\* the wait with JobFailedError carrying the code and detail of that payload's
\* error sub-object (None for both when it is absent), and that read is the
\* last thing the wait did: no read and no sleep follows it.
C2_FailedRaises ==
    mode = "job" =>
        LET n == NFetches IN
        /\ (n >= 1 /\ Fetches[n].ok /\ Fetches[n].st.status = "FAILED" /\ target # "FAILED")
              => /\ pc = "done"
                 /\ exc.type = "JobFailedError"
        /\ exc.type = "JobFailedError"
              => /\ pc = "done" /\ ret = NoRet
                 /\ n >= 1 /\ Fetches[n].ok
                 /\ Fetches[n].st.status = "FAILED"
                 /\ exc.code = ErrorCodeOf(Fetches[n].st)
                 /\ exc.detail = ErrorDetailOf(Fetches[n].st)
                 /\ \A i \in 1..(n - 1) :
                        Fetches[i].ok /\ Fetches[i].st.status \notin {target, "FAILED"}
                 /\ NSleeps = n - 1
                 /\ NothingAfterLastFetch

\* C2 witness: the second read reported FAILED with an error sub-object whose
\* code is null.
C2_Witness ==
    /\ mode = "job" /\ exc.type = "JobFailedError"
    /\ NFetches = 2
    /\ Fetches[2].st.error.present /\ exc.code = None /\ exc.detail = "boom"

\* ------------------------------------------------------------- C3
\* C3 as stated: when Job.wait_for ends with WaitTimeout, its last read was
\* started and had completed before the deadline.
C3_LastFetchBeforeDeadline ==
    (mode = "job" /\ exc.type = "WaitTimeout")
        => /\ lastFetchStart < calledAt + timeout
           /\ lastFetchEnd < calledAt + timeout

\* C3 amended: Job.wait_for ends with WaitTimeout at the first deadline check
\* that reads a clock >= call time + timeout; the check follows a read that was
\* neither reached nor failed, every earlier check read a clock before the
\* deadline (the wait is about to sleep only then), and no read or sleep
\* follows the check that timed out.
C3_TimeoutAtFirstLateCheck ==
    mode = "job" =>
        LET n == NFetches IN
        /\ pc = "sleep" => now < calledAt + timeout
        /\ exc.type = "WaitTimeout"
              => /\ pc = "done" /\ ret = NoRet
                 /\ now >= calledAt + timeout
                 /\ lastFetchEnd <= now
                 /\ exc.target_status = target /\ exc.timeout = timeout
                 /\ trace[Len(trace)].ev = "check"
                 /\ \A i \in DOMAIN trace :
                        (LastFetchIndex < i /\ i < Len(trace)) => IsNotify(trace[i])
                 /\ \A i \in 1..n :
                        Fetches[i].ok /\ Fetches[i].st.status \notin {target, "FAILED"}
                 /\ NSleeps = n - 1

\* C3 witness: a wait that timed out after a read started past the deadline.
C3_Witness ==
    /\ mode = "job" /\ exc.type = "WaitTimeout"
    /\ NFetches = 2
    /\ lastFetchStart > calledAt + timeout

\* ------------------------------------------------------------- C4
RECURSIVE NonEmpty(_)
NonEmpty(ds) ==
    IF ds = <<>> THEN <<>>
    ELSE IF Head(ds) \in {None, ""} THEN NonEmpty(Tail(ds))
    ELSE <<Head(ds)>> \o NonEmpty(Tail(ds))

RECURSIVE Collapse(_)
Collapse(ds) ==
    IF Len(ds) <= 1 THEN ds
    ELSE IF ds[1] = ds[2] THEN Collapse(Tail(ds))
    ELSE <<ds[1]>> \o Collapse(Tail(ds))

\* C4: in both waits the notifications emitted so far are the non-empty
\* step_detail values read so far, in order, with each run of equal values
\* collapsed to one; absent and empty details are skipped before collapsing,
\* so they neither notify nor break a run.
C4_NotificationsCollapsed ==
    mode \in {"job", "sb"} => Notes = Collapse(NonEmpty(ObservedDetails))

\* C4 witness: details A, A, B, A read by Job.wait_for gave A, B, A.
C4_Witness ==
    /\ mode = "job"
    /\ ObservedDetails = <<"A", "A", "B", "A">>
    /\ Notes = <<"A", "B", "A">>

\* ------------------------------------------------------------- C5
\* C5: Job.wait_for with timeout 0 never sleeps and reads the status exactly
\* once; when that read is neither reached nor failed the wait ends with
\* WaitTimeout.
C5_ZeroTimeoutOneFetch ==
    (mode = "job" /\ timeout = 0) =>
        /\ NSleeps = 0
        /\ pc # "sleep"
        /\ NFetches <= 1
        /\ pc = "done" => NFetches = 1
        /\ (pc = "done" /\ Fetches[1].ok
              /\ Fetches[1].st.status \notin {target, "FAILED"})
              => exc = WaitTimeout(target, 0)

\* C5 witness: a zero-timeout wait that timed out after its one read.
C5_Witness ==
    /\ mode = "job" /\ timeout = 0 /\ pc = "done"
    /\ exc.type = "WaitTimeout"
    /\ NFetches = 1 /\ NSleeps = 0

\* ------------------------------------------------------------- C6
\* C6: in Job.wait_for a status read that raises is the last thing the wait
\* does: the wait is over, the caller gets that very exception and no payload,
\* and no read, sleep, deadline check or notification follows it (so when it
\* is the first read nothing was notified and nothing slept).
C6_TransportErrorPropagates ==
    mode = "job" =>
        /\ \A i \in DOMAIN trace :
              (IsFetch(trace[i]) /\ ~trace[i].ok)
                 => /\ i = Len(trace)
                    /\ pc = "done"
                    /\ exc = Propagated(trace[i].exn)
                    /\ ret = NoRet
                    /\ (i = 1 => Notes = <<>> /\ NSleeps = 0)
        /\ exc.type \in TransportErrors
              => /\ IsFetch(trace[Len(trace)]) /\ ~trace[Len(trace)].ok
                 /\ NSleeps = NFetches - 1

\* C6 witness: the second status read raised, after one notification and one
\* sleep.
C6_Witness ==
    /\ mode = "job" /\ exc.type = "ConnectError"
    /\ NFetches = 2 /\ NSleeps = 1 /\ Notes = <<"A">>

\* ------------------------------------------------------------- C7
\* C7 as stated: whatever the target, every status read of Job.wait_for that
\* reports FAILED ends the wait with JobFailedError.
C7_FailedAlwaysRaises ==
    mode = "job" =>
        \A i \in 1..NFetches :
            (Fetches[i].ok /\ Fetches[i].st.status = "FAILED")
                => exc.type = "JobFailedError"

\* ------------------------------------------------------------- C8
\* The number of outcomes the wait has produced.
OutcomeCount ==
      (IF ret # NoRet THEN 1 ELSE 0)
    + (IF exc.type = "JobFailedError" THEN 1 ELSE 0)
    + (IF exc.type = "WaitTimeout" THEN 1 ELSE 0)
    + (IF exc.type \in TransportErrors THEN 1 ELSE 0)

\* C8: a wait of either kind that has ended has produced exactly one of a
\* returned payload, JobFailedError, WaitTimeout or a propagated read error,
\* and a wait that has not ended has produced none.
C8_ExactlyOneOutcome ==
    mode \in {"job", "sb"} =>
        /\ pc = "done" => OutcomeCount = 1
        /\ pc # "done" => (ret = NoRet /\ exc = NoExc)
        /\ exc # NoExc => exc.type \in {"JobFailedError", "WaitTimeout"} \cup TransportErrors
        /\ ret # NoRet => ret.kind = (IF mode = "job" THEN "status" ELSE "storyboard")

\* C8 witness: a storyboard wait that ended by timing out.
C8_Witness ==
    /\ mode = "sb" /\ pc = "done"
    /\ exc.type = "WaitTimeout" /\ ret = NoRet

\* ------------------------------------------------------------- C9
IsStatusErr(e) == IsStatus(e) /\ ~e.ok

\* What follows a status read that raised, as far as the trace goes: the
\* deadline check, the sleep, the next storyboard read.
C9_Inv ==
    mode = "sb" =>
        /\ \A i \in DOMAIN trace :
              IsStatusErr(trace[i])
                 => /\ i = Len(trace) => (pc = "deadline" /\ exc = NoExc /\ ret = NoRet)
                    /\ i + 1 <= Len(trace) => trace[i + 1].ev = "check"
                    /\ i + 2 <= Len(trace) => trace[i + 2].ev = "sleep"
                    /\ i + 3 <= Len(trace) => trace[i + 3].ev = "fetch"
        /\ exc.type \in TransportErrors => ~IsStatusErr(trace[Len(trace)])
        /\ (NFetches >= 1 /\ Fetches[NFetches].ok /\ Fetches[NFetches].sb.exists)
              => ret = [kind |-> "storyboard", st |-> NoSt, sb |-> Fetches[NFetches].sb]

\* The step in which the status read raises leaves _last_detail, the outcome
\* and the notifications as they were.
C9_Step ==
    (mode = "sb" /\ Len(trace') = Len(trace) + 1 /\ IsStatusErr(trace'[Len(trace')]))
        => /\ lastDetail' = lastDetail
           /\ exc' = exc /\ ret' = ret
           /\ pc' = "deadline"

\* C9: in the storyboard wait, a status read that raises does not end the
\* wait and leaves the last-seen detail unchanged; the loop goes on to the
\* deadline check, the sleep and the next storyboard read, and a storyboard
\* read with exists true is returned whatever status reads raised before it.
C9_StatusErrorSuppressed == [](C9_Inv) /\ [][C9_Step]_vars

\* C9 witness: a storyboard payload returned on the tick after a status read
\* raised.
C9_Witness ==
    /\ mode = "sb" /\ ret.kind = "storyboard"
    /\ \E i \in DOMAIN trace : IsStatusErr(trace[i])

\* ------------------------------------------------------------- C10
\* C10: in the storyboard wait, a storyboard read that raises is the last
\* thing the wait does: the caller gets that very exception and no payload,
\* and no status read, sleep, deadline check or storyboard read follows it.
C10_PrimaryErrorPropagates ==
    mode = "sb" =>
        /\ \A i \in DOMAIN trace :
              (IsFetch(trace[i]) /\ ~trace[i].ok)
                 => /\ i = Len(trace)
                    /\ pc = "done"
                    /\ exc = Propagated(trace[i].exn)
                    /\ ret = NoRet
        /\ exc.type \in TransportErrors
              => /\ IsFetch(trace[Len(trace)]) /\ ~trace[Len(trace)].ok
                 /\ NSleeps = NFetches - 1

\* C10 witness: the storyboard read of the second tick raised, after a first
\* tick whose status read had raised and been suppressed.
C10_Witness ==
    /\ mode = "sb" /\ exc.type = "GetMotionError"
    /\ NFetches = 2
    /\ \E i \in DOMAIN trace : IsStatusErr(trace[i])

\* ------------------------------------------------------------- C11
\* Index of the last status read of the storyboard wait (0 when none).
LastStatusIndex ==
    LET I == {i \in DOMAIN trace : IsStatus(trace[i])}
    IN  IF I = {} THEN 0 ELSE CHOOSE i \in I : \A j \in I : j <= i

\* C11: in the storyboard wait, a status read that returns FAILED ends the
\* wait with JobFailedError carrying the code and detail of the payload's
\* error sub-object (None when it is absent); the suppression of status-read
\* errors does not swallow it, and only the read's own notification follows.
C11_StoryboardFailedRaises ==
    mode = "sb" =>
        LET k == LastStatusIndex IN
        /\ (k > 0 /\ trace[k].ok /\ trace[k].st.status = "FAILED")
              => /\ pc = "done" /\ ret = NoRet
                 /\ exc.type = "JobFailedError"
                 /\ exc.code = ErrorCodeOf(trace[k].st)
                 /\ exc.detail = ErrorDetailOf(trace[k].st)
                 /\ \A i \in DOMAIN trace : i > k => IsNotify(trace[i])
        /\ exc.type = "JobFailedError"
              => /\ k > 0 /\ trace[k].ok /\ trace[k].st.status = "FAILED"
                 /\ ~Fetches[NFetches].sb.exists

\* C11 witness: the status read of the second tick reported FAILED with an
\* error sub-object.
C11_Witness ==
    /\ mode = "sb" /\ exc.type = "JobFailedError"
    /\ NFetches = 2
    /\ exc.code = "E42" /\ exc.detail = "boom"

\* ------------------------------------------------------------- C12
\* C12: the storyboard wait returns the payload of the first storyboard read
\* whose exists is true, as read; no job status is read on that tick, so no
\* JobFailedError can come of it, and every read before it had exists false.
C12_ReturnsFirstExisting ==
    mode = "sb" =>
        LET n == NFetches IN
        /\ (n >= 1 /\ Fetches[n].ok /\ Fetches[n].sb.exists)
              => /\ pc = "done" /\ exc = NoExc
                 /\ ret = [kind |-> "storyboard", st |-> NoSt, sb |-> Fetches[n].sb]
                 /\ LastFetchIndex = Len(trace)
        /\ ret # NoRet
              => /\ n >= 1 /\ Fetches[n].ok /\ Fetches[n].sb.exists
                 /\ ret.sb = Fetches[n].sb
                 /\ \A i \in 1..(n - 1) : Fetches[i].ok /\ ~Fetches[i].sb.exists

\* C12 witness: the second storyboard read had exists true, after a tick on
\* which the job status was read.
C12_Witness ==
    /\ mode = "sb" /\ pc = "done"
    /\ NFetches = 2
    /\ ret.sb = [exists |-> TRUE, session_id |-> "s2"]
    /\ LastStatusIndex > 0 /\ trace[LastStatusIndex].ok

\* ------------------------------------------------------------- C13
\* The notifications recorded in a trace.
NotesOf(tr) == LET N == SelectSeq(tr, IsNotify) IN [i \in 1..Len(N) |-> N[i].msg]

\* What a wait running alone satisfies, read off its own frame: its deadline
\* is its own call time plus its own timeout, its notifications and its
\* last-seen detail come from the details it read itself, and its outcome and
\* its numbers of reads and sleeps are those its own reads determine.
C13_Inv ==
    mode \in {"job", "sb"} =>
        /\ deadline = calledAt + timeout
        /\ Notes = Collapse(NonEmpty(ObservedDetails))
        /\ lastDetail = (IF Notes = <<>> THEN None ELSE Notes[Len(Notes)])
        /\ C1_ReturnsFirstReached /\ C2_FailedRaises /\ C6_TransportErrorPropagates
        /\ C10_PrimaryErrorPropagates /\ C11_StoryboardFailedRaises
        /\ C12_ReturnsFirstExisting
        /\ C8_ExactlyOneOutcome
        /\ (pc = "done" => NSleeps = NFetches - 1)

\* A step of one wait leaves the other wait's frame alone, and a switch hands
\* each frame over as it is.
C13_Step == other' = other \/ (other' = Frame /\ Frame' = other)

\* C13: two waits of one caller, interleaved or one after the other, share
\* nothing but the clock: each keeps its own deadline and last-seen detail,
\* each one's outcome, reads, sleeps and notifications follow from its own
\* reads as for a wait running alone, and no step of one changes the frame of
\* the other.
C13_WaitsIndependent == [](C13_Inv) /\ [][C13_Step]_vars

\* C13 witness: a wait called while another was in progress has ended and
\* notified detail A, which the other, still between two reads, had notified
\* too.
C13_Witness ==
    /\ mode = "job" /\ pc = "done" /\ Notes = <<"A">>
    /\ other.mode = "sb" /\ other.pc = "fetch" /\ NotesOf(other.trace) = <<"A">>
    /\ other.calledAt < calledAt

\* ------------------------------------------------------------- C14
\* C14 as stated: a wait that ends with WaitTimeout does so no later than
\* `timeout` after it was called.
C14_TimeoutWithinBudget ==
    (mode \in {"job", "sb"} /\ exc.type = "WaitTimeout") => now <= calledAt + timeout

\* ------------------------------------------------------------- C15
\* C15: the timeout given to GetMotion(timeout=...) is in force for every
\* request but storyboard chat, chat has no timeout, and the timeout handed
\* to the underlying client for chat differs from the one handed over for
\* every other call.
C15_ClientTimeoutInForce ==
    \A i \in 1..Len(wire) :
        IF wire[i].site = "StoryboardSession.chat"
        THEN /\ wire[i].inForce = ArgNone
             /\ \A j \in 1..Len(wire) :
                    wire[j].site # "StoryboardSession.chat"
                        => wire[j].handed # wire[i].handed
        ELSE wire[i].inForce = clientTimeout

\* ------------------------------------------------------------- C16
\* C16: every response has exactly one result: 2xx returns the decoded body
\* and raises nothing; 401 raises AuthenticationError, 404 NotFoundError, 409
\* ConflictError, any other status GetMotionError; and the error raised
\* carries the status code.
C16_EveryResponseMapped ==
    httpOut.kind \in {"return", "raise"} =>
        LET code == httpIn.code
        IN  IF code \in 200..299
            THEN httpOut.kind = "return"
            ELSE /\ httpOut.kind = "raise"
                 /\ httpOut.status_code = code
                 /\ httpOut.type = (CASE code = 401 -> "AuthenticationError"
                                      [] code = 404 -> "NotFoundError"
                                      [] code = 409 -> "ConflictError"
                                      [] OTHER -> "GetMotionError")

\* ------------------------------------------------------------- C17
\* C17: init_storyboard, once over: if the POST response held a session_id,
\* the session is the one of that response and no storyboard or status read
\* and no sleep was made; if it did not, the wait was entered with the call's
\* timeout and poll_interval, the session is the one of the payload the wait
\* returned, and what the wait raised (JobFailedError and WaitTimeout among
\* it) is raised to the caller with no session returned.  Before the end no
\* session is returned.
C17_SessionFromResponseOrWait ==
    /\ initPc # "done" => session = NoSession /\ initExc = NoExc
    /\ (initPc \in {"idle", "post"}) => mode = "none"
    /\ (initPc = "done" /\ initData # NoData) =>
          IF "session_id" \in DOMAIN initData
          THEN /\ session.session_id = initData.session_id
               /\ initExc = NoExc
               /\ mode = "none" /\ trace = <<>>
          ELSE /\ mode = "sb" /\ pc = "done"
               /\ timeout = initArgs.timeout /\ pollInterval = initArgs.poll_interval
               /\ IF ret # NoRet
                  THEN /\ session.session_id = ret.sb.session_id
                       /\ ret.sb.exists
                       /\ initExc = NoExc
                  ELSE /\ session = NoSession
                       /\ initExc = exc /\ exc # NoExc
    /\ (initPc = "done" /\ initData = NoData) =>
          /\ session = NoSession /\ initExc.type \in TransportErrors
          /\ mode = "none" /\ trace = <<>>

\* C17 witness: the POST held no session_id, the wait slept once and then
\* returned the storyboard, and the session is that storyboard's.
C17_Witness ==
    /\ initPc = "done" /\ "session_id" \notin DOMAIN initData
    /\ NSleeps = 1 /\ ret.sb.exists
    /\ session.session_id = "s2"

IsFetchOrSleep(e) == IsFetch(e) \/ IsSleep(e)

\* The primary reads and the sleeps of the trace, in order, alternate and
\* start with a read.
C19_Inv ==
    mode \in {"job", "sb"} =>
        LET FS == SelectSeq(trace, IsFetchOrSleep) IN
        /\ trace # <<>> => IsFetch(trace[1])
        /\ \A k \in DOMAIN FS :
              IF k % 2 = 1 THEN IsFetch(FS[k]) ELSE IsSleep(FS[k])
        /\ pc = "done" => NSleeps = NFetches - 1

\* A step that adds a sleep to the trace advances the clock by poll_interval.
C19_Step ==
    (Len(trace') = Len(trace) + 1 /\ IsSleep(trace'[Len(trace')]))
        => now' = now + pollInterval

\* C19: in both waits the first thing done is a primary read, exactly one
\* sleep, of poll_interval, lies between two consecutive primary reads, and a
\* wait that has ended has slept once less than it has read.
C19_FetchFirstOneSleepBetween == [](C19_Inv) /\ [][C19_Step]_vars

\* C19 witness: a storyboard wait that ended after three reads and two sleeps.
C19_Witness ==
    /\ mode = "sb" /\ pc = "done"
    /\ NFetches = 3 /\ NSleeps = 2

\* ------------------------------------------------------------- C20
\* A check that reads a time at or after the deadline ends the wait with
\* WaitTimeout and no further read, and a wait that has ended does nothing
\* more.
C20_Step ==
    /\ (pc = "deadline" /\ now >= calledAt + timeout)
          => /\ pc' = "done" /\ exc'.type = "WaitTimeout"
             /\ NFetches' = NFetches /\ StatusReads' = StatusReads
    /\ pc = "done" => (pc' = "done" /\ NFetches' = NFetches /\ StatusReads' = StatusReads)

\* C20: every wait that is called ends, by a returned payload, JobFailedError,
\* WaitTimeout or a propagated read error, also when the server never reports
\* the target or FAILED, provided reads return or raise, sleeps return and
\* the clock goes on (poll_interval > 0 or reads take time); and once a check
\* has read a time at or after the deadline no further read is made.
C20_WaitTerminates ==
    /\ [][C20_Step]_vars
    /\ (mode # "none") ~> (pc = "done" /\ OutcomeCount = 1)

\* C20 witness: a wait_for with poll_interval 0 has ended by WaitTimeout
\* after two reads and one sleep that never showed the target or FAILED.
C20_Witness ==
    /\ mode = "job" /\ pc = "done" /\ pollInterval = 0
    /\ exc.type = "WaitTimeout" /\ NFetches = 2 /\ NSleeps = 1 /\ ret = NoRet

\* ------------------------------------------------------------- C21
\* The reads of the trace, storyboard and status, in order; a status read
\* that raised counts as made.
IsRead(e) == IsFetch(e) \/ IsStatus(e)
Reads == SelectSeq(trace, IsRead)
NStatus == Len(SelectSeq(trace, IsStatus))

C22_FinalizeThenReview ==
    op = "finalize" =>
        /\ Len(reqs) \in {1, 2}
        /\ reqs[1] = Req("http", "POST", "/storyboard/{session_id}/finalize", None)
        /\ Len(reqs) = 2 =>
              /\ "storyboard_key" \in DOMAIN finalize_data
              /\ reqs[2] = Req("http", "POST", "/jobs/{job_id}/review",
                               finalize_data.storyboard_key)
              /\ storyboard_key = finalize_data.storyboard_key
        /\ Len(reqs) = 1 => storyboard_key = opArg
        /\ (opPc = "done" /\ finalize_data = NoFinalizeData) =>
              /\ Len(reqs) = 1 /\ opExc \in OpErrors

\* C22 witness: the review request has failed, and the session, which held
\* k1 at the call, holds the finalized key k2.
C22_Witness ==
    /\ op = "finalize" /\ opPc = "done" /\ opExc \in OpErrors
    /\ Len(reqs) = 2 /\ opArg = "k1" /\ storyboard_key = "k2"

\* ------------------------------------------------------------- C23
\* C23: get_renders with a version issues the one request for that version
\* and no listing; with no version (None, or the empty string, which counts
\* as none) it lists the versions first, returns {"renders": []} with no
\* further request if the list is empty, and otherwise requests the last
\* entry of the list and nothing else.
C23_LatestOrGivenVersion ==
    op = "get_renders" =>
        IF opArg \notin {None, ""}
        THEN /\ reqs = <<VersionRequest(opArg)>>
             /\ (opPc = "done" /\ opExc = "none") => opRet = RendersOf(opArg)
        ELSE /\ Len(reqs) \in {1, 2}
             /\ reqs[1] = ListRequest
             /\ Len(reqs) = 2 <=> versions # <<>>
             /\ Len(reqs) = 2 => reqs[2] = VersionRequest(versions[Len(versions)])
             /\ (opPc = "done" /\ opExc = "none") =>
                   opRet = (IF versions = <<>> THEN NoRenders
                            ELSE RendersOf(versions[Len(versions)]))

\* C23 witness: with no version given and the list v1, v2, get_renders has
\* returned the renders of v2 after two requests.
C23_Witness ==
    /\ op = "get_renders" /\ opPc = "done" /\ opArg = None
    /\ versions = <<"v1", "v2">> /\ Len(reqs) = 2 /\ opRet = RendersOf("v2")

\* ------------------------------------------------------------- C24
\* C24: upload_audio with a path that does not exist raises
\* FileNotFoundError with no request issued; otherwise it issues the presign
\* request first and then at most one upload, to the first presigned target,
\* and nothing follows an upload that failed.
C24_UploadsToFirstTargetOnly ==
    op = "upload_audio" =>
        IF ~PathExists(opArg)
        THEN reqs = <<>> /\ opPc = "done" /\ opExc = "FileNotFoundError"
        ELSE /\ opExc # "FileNotFoundError"
             /\ Len(reqs) \in {1, 2}
             /\ reqs[1] = PresignRequest
             /\ Len(reqs) = 2 => reqs[2] = UploadRequest(presign_data[1])
             /\ opExc \in UploadErrors => opPc = "done"

====
